---- MODULE Spec2Model ----
(***************************************************************************)
(* Hashtag recommendation server and trend scrapers.                       *)
(*                                                                         *)
(* Strings are sequences of one-character strings, so that trimming, case  *)
(* folding, prefix stripping and substring search are computed the way the *)
(* JavaScript code computes them.                                          *)
(***************************************************************************)
EXTENDS Integers, Sequences, FiniteSets, TLC

(***************************************************************************)
(* String primitives (String.prototype.* as used by the sources).          *)
(***************************************************************************)
Uppers == <<"A","B","C","D","E","F","G","H","I","J","K","L","M",
            "N","O","P","Q","R","S","T","U","V","W","X","Y","Z">>
Lowers == <<"a","b","c","d","e","f","g","h","i","j","k","l","m",
            "n","o","p","q","r","s","t","u","v","w","x","y","z">>
Digits == <<"0","1","2","3","4","5","6","7","8","9">>

Range(s) == { s[i] : i \in 1..Len(s) }

IsUpper(c) == \E i \in 1..Len(Uppers) : Uppers[i] = c
IsLower(c) == \E i \in 1..Len(Lowers) : Lowers[i] = c
IsDigit(c) == \E i \in 1..Len(Digits) : Digits[i] = c
IsSpace(c) == c = " "

LowerChar(c) ==
  IF IsUpper(c) THEN Lowers[CHOOSE i \in 1..Len(Uppers) : Uppers[i] = c] ELSE c
UpperChar(c) ==
  IF IsLower(c) THEN Uppers[CHOOSE i \in 1..Len(Lowers) : Lowers[i] = c] ELSE c

\* String.prototype.toLowerCase / toUpperCase
toLowerCase(s) == [i \in 1..Len(s) |-> LowerChar(s[i])]
toUpperCase(s) == [i \in 1..Len(s) |-> UpperChar(s[i])]

\* String.prototype.trim
RECURSIVE TrimLeft(_)
TrimLeft(s) ==
  IF Len(s) > 0 /\ IsSpace(s[1]) THEN TrimLeft(Tail(s)) ELSE s
RECURSIVE TrimRight(_)
TrimRight(s) ==
  IF Len(s) > 0 /\ IsSpace(s[Len(s)]) THEN TrimRight(SubSeq(s, 1, Len(s) - 1)) ELSE s
trim(s) == TrimRight(TrimLeft(s))

\* String.prototype.startsWith
startsWith(s, p) == Len(s) >= Len(p) /\ SubSeq(s, 1, Len(p)) = p

\* String.prototype.includes
includes(s, k) ==
  \E i \in 1..(Len(s) - Len(k) + 1) : SubSeq(s, i, i + Len(k) - 1) = k

\* x.replace(/^#/, ""): removes one leading '#', and only one.
StripHash(s) == IF Len(s) > 0 /\ s[1] = "#" THEN Tail(s) ELSE s

\* x.replace(/\s+/g, " "): every run of whitespace becomes one space.
\* Of each run the first character stays, as a space; the others go.
CollapseWs(s) ==
  LET marked == [i \in 1..Len(s) |->
                   <<s[i], i > 1 /\ IsSpace(s[i]) /\ IsSpace(s[i - 1])>>]
      kept   == SelectSeq(marked, LAMBDA m : ~m[2])
  IN [i \in 1..Len(kept) |-> kept[i][1]]

\* k.replace(/\s+/g, ""): every whitespace character is removed.
RemoveWs(s) == SelectSeq(s, LAMBDA c : ~IsSpace(c))

\* Array.prototype.slice(0, n): a negative n counts from the end.
slice0(s, n) ==
  LET e == IF n < 0 THEN (IF Len(s) + n < 0 THEN 0 ELSE Len(s) + n)
           ELSE (IF n > Len(s) THEN Len(s) ELSE n)
  IN SubSeq(s, 1, e)

(***************************************************************************)
(* Keyword extraction.                                                     *)
(***************************************************************************)
\* sanitizeHtml(text, {allowedTags: [], allowedAttributes: {}}): tags are
\* dropped, their text content is kept, and the characters & < > that are
\* left in text are written as entities.
\* a '<' that starts a tag: a letter or '/' follows it
OpensTag(s, i) ==
  /\ s[i] = "<"
  /\ i < Len(s)
  /\ (IsLower(s[i + 1]) \/ IsUpper(s[i + 1]) \/ s[i + 1] = "/")
\* what the character at i contributes to the output
SanChar(s, i, inTag) ==
  IF inTag \/ OpensTag(s, i) THEN <<>>
  ELSE IF s[i] = "<" THEN <<"&","l","t",";">>
  ELSE IF s[i] = "&" THEN <<"&","a","m","p",";">>
  ELSE IF s[i] = ">" THEN <<"&","g","t",";">>
  ELSE <<s[i]>>
RECURSIVE San(_, _, _)
San(s, i, inTag) ==
  IF i > Len(s) THEN <<>>
  ELSE SanChar(s, i, inTag)
       \o San(s, i + 1, IF inTag THEN s[i] # ">" ELSE OpensTag(s, i))
sanitizeHtml(s) == San(s, 1, FALSE)

\* natural.WordTokenizer: split on /[^A-Za-z0-9_]+/ and drop empty pieces.
IsWordChar(c) == IsLower(c) \/ IsUpper(c) \/ IsDigit(c) \/ c = "_"
\* The tokens are the maximal runs of word characters, in text order.
tokenize(s) ==
  LET starts == SelectSeq([i \in 1..Len(s) |-> i],
                          LAMBDA i : /\ IsWordChar(s[i])
                                     /\ (i = 1 \/ ~IsWordChar(s[i - 1])))
      EndOf(i) == CHOOSE j \in i..Len(s) :
                    /\ \A m \in i..j : IsWordChar(s[m])
                    /\ (j = Len(s) \/ ~IsWordChar(s[j + 1]))
  IN [k \in 1..Len(starts) |-> SubSeq(s, starts[k], EndOf(starts[k]))]

\* tokens.forEach(t => freq[t] = (freq[t] || 0) + 1): the property list of
\* the object in creation order, each key with its count.
RECURSIVE Count(_, _)
Count(toks, freq) ==
  IF Len(toks) = 0 THEN freq
  ELSE LET t == toks[1] IN
       IF \E i \in 1..Len(freq) : freq[i][1] = t
       THEN Count(Tail(toks),
                  [i \in 1..Len(freq) |->
                     IF freq[i][1] = t THEN <<t, freq[i][2] + 1>> ELSE freq[i]])
       ELSE Count(Tail(toks), Append(freq, <<t, 1>>))

\* A property name is an array index when it is the canonical decimal form
\* of an integer below 2^32 - 1: digits only, no leading zero unless it is
\* "0".  Names of up to nine digits are covered; ten-digit names are beyond
\* the integers of the checker and beyond the texts enumerated here.
RECURSIVE NumVal(_)
NumVal(s) ==
  IF Len(s) = 0 THEN 0
  ELSE 10 * NumVal(SubSeq(s, 1, Len(s) - 1))
       + (CHOOSE d \in 0..9 : Digits[d + 1] = s[Len(s)])
IsArrayIndex(s) ==
  /\ Len(s) > 0
  /\ Len(s) <= 9
  /\ \A i \in 1..Len(s) : IsDigit(s[i])
  /\ (Len(s) > 1 => s[1] # "0")

\* Array.prototype.sort((a, b) => b.key - a.key) on a sequence of pairs
\* <<key, item>>: descending by key, stable (equal keys keep their order).
RECURSIVE InsertDesc(_, _)
InsertDesc(e, s) ==
  IF Len(s) = 0 THEN <<e>>
  ELSE IF e[1] > s[1][1] THEN <<e>> \o s
       ELSE <<s[1]>> \o InsertDesc(e, Tail(s))
RECURSIVE SortDesc(_)
SortDesc(s) ==
  IF Len(s) = 0 THEN <<>>
  ELSE InsertDesc(s[Len(s)], SortDesc(SubSeq(s, 1, Len(s) - 1)))

\* Object.entries(obj): array-index keys first, in ascending numeric order,
\* then the other keys in creation order.
ObjectEntries(obj) ==
  LET idx == SelectSeq(obj, LAMBDA e : IsArrayIndex(e[1]))
      str == SelectSeq(obj, LAMBDA e : ~IsArrayIndex(e[1]))
      asc == SortDesc([i \in 1..Len(idx) |-> <<0 - NumVal(idx[i][1]), idx[i]>>])
  IN [i \in 1..Len(asc) |-> asc[i][2]] \o str

\* a filter that keeps two-character tokens as well
LongerThanOne(t) == Len(t) > 1
\* .filter(t => t.length > 2)
LongEnough(t) == Len(t) > 2

\* sanitizeHtml(text, ...).replace(/\s+/g, " ").trim().toLowerCase()
clean(text) == toLowerCase(trim(CollapseWs(sanitizeHtml(text))))

extractKeywords(text, top) ==
  LET tokens == SelectSeq(tokenize(clean(text)), LongEnough)
      freq   == Count(tokens, <<>>)
      ents   == ObjectEntries(freq)
      sorted == SortDesc([i \in 1..Len(ents) |-> <<ents[i][2], ents[i]>>])
  IN slice0([i \in 1..Len(sorted) |-> sorted[i][2][1]], top)

(***************************************************************************)
(* Candidate generation and assembly (the body of POST /generate).         *)
(***************************************************************************)
\* an add that moves a value already in the set to the end
SetAddLast(set, x) == Append(SelectSeq(set, LAMBDA y : y # x), x)
\* Set.prototype.add on a Set kept in insertion order: a value already in
\* the set keeps its place.
SetAdd(set, x) == IF x \in Range(set) THEN set ELSE Append(set, x)

\* (trendDoc.hashtags || []).map(h => h.tag.toLowerCase())
TrendList(trendDoc) ==
  [i \in 1..Len(trendDoc.hashtags) |-> toLowerCase(trendDoc.hashtags[i].tag)]

\* Rule 1: keywords.forEach(k => trendList.forEach(tag => ...))
RECURSIVE MatchTags(_, _, _)
MatchTags(cands, k, tags) ==
  IF Len(tags) = 0 THEN cands
  ELSE MatchTags(IF includes(tags[1], k) THEN SetAdd(cands, StripHash(tags[1]))
                 ELSE cands,
                 k, Tail(tags))
RECURSIVE Rule1(_, _, _)
Rule1(cands, keywords, trendList) ==
  IF Len(keywords) = 0 THEN cands
  ELSE Rule1(MatchTags(cands, keywords[1], trendList), Tail(keywords), trendList)

\* a rule 2 that adds the keyword alone
RECURSIVE Rule2BaseOnly(_, _)
Rule2BaseOnly(cands, keywords) ==
  IF Len(keywords) = 0 THEN cands
  ELSE Rule2BaseOnly(SetAdd(cands, RemoveWs(keywords[1])), Tail(keywords))
\* Rule 2: base, base + "tok", base + "tiktok" for every keyword.
RECURSIVE Rule2(_, _)
Rule2(cands, keywords) ==
  IF Len(keywords) = 0 THEN cands
  ELSE LET base == RemoveWs(keywords[1]) IN
       Rule2(SetAdd(SetAdd(SetAdd(cands, base),
                           base \o <<"t","o","k">>),
                    base \o <<"t","i","k","t","o","k">>),
             Tail(keywords))

\* a rule 3 that never looks at the size
RECURSIVE Rule3Ungated(_, _, _)
Rule3Ungated(cands, trendList, limit) ==
  IF Len(trendList) = 0 THEN cands
  ELSE Rule3Ungated(SetAdd(cands, StripHash(trendList[1])), Tail(trendList),
                    limit)
\* Rule 3: for (const t of trendList) { if (size >= limit) break; add }
RECURSIVE Rule3(_, _, _)
Rule3(cands, trendList, limit) ==
  IF Len(trendList) = 0 \/ Len(cands) >= limit THEN cands
  ELSE Rule3(SetAdd(cands, StripHash(trendList[1])), Tail(trendList), limit)

Candidates(keywords, trendList, limit) ==
  Rule3(Rule2(Rule1(<<>>, keywords, trendList), keywords), trendList, limit)

\* x => (x.startsWith("#") ? x : `#${x}`)
Prefix(x) == IF startsWith(x, <<"#">>) THEN x ELSE <<"#">> \o x

\* the map without the slice
AssembleUncut(cands, limit) == [i \in 1..Len(cands) |-> Prefix(cands[i])]
\* Array.from(candidates).slice(0, limit).map(...)
Assemble(cands, limit) ==
  LET cut == slice0(cands, limit) IN [i \in 1..Len(cut) |-> Prefix(cut[i])]

(***************************************************************************)
(* Trend store (Firestore collection "trending") and the scrapers.         *)
(***************************************************************************)
Null == <<>>                    \* null; a server timestamp t is <<t>>
Undefined == [undefined |-> TRUE]
\* The DocumentSnapshot of a document that does not exist: data() is undefined.
Missing == [exists |-> FALSE, data |-> Undefined]
\* { updatedAt: null, hashtags: [] }
DefaultTrending == [updatedAt |-> Null, hashtags |-> <<>>]
\* The result of docRef.get(): not asked yet, resolved with a
\* DocumentSnapshot, or rejected.
NoSnap == [state |-> "none", exists |-> FALSE, data |-> Undefined]
Resolved(d) == [state |-> "ok", exists |-> d.exists, data |-> d.data]
Rejected == [state |-> "rejected", exists |-> FALSE, data |-> Undefined]

\* /#([A-Za-z0-9_]+)/g over a text: every '#' followed by at least one word
\* character, with the maximal run of word characters after it.
RECURSIVE WordRun(_)
WordRun(s) ==
  IF Len(s) > 0 /\ IsWordChar(s[1]) THEN <<s[1]>> \o WordRun(Tail(s)) ELSE <<>>
RECURSIVE MatchHashtags(_)
MatchHashtags(s) ==
  IF Len(s) = 0 THEN <<>>
  ELSE IF s[1] = "#" /\ Len(WordRun(Tail(s))) > 0
       THEN LET w == WordRun(Tail(s)) IN
            <<(<<"#">> \o w)>> \o MatchHashtags(SubSeq(s, Len(w) + 2, Len(s)))
       ELSE MatchHashtags(Tail(s))

\* counts[key] = (counts[key] || 0) + w for every tag of a list, key being
\* the lower-cased tag; counts is the property list in creation order.
RECURSIVE AddCounts(_, _, _)
AddCounts(counts, tags, w) ==
  IF Len(tags) = 0 THEN counts
  ELSE LET key == toLowerCase(tags[1]) IN
       IF \E i \in 1..Len(counts) : counts[i][1] = key
       THEN AddCounts([i \in 1..Len(counts) |->
                         IF counts[i][1] = key
                         THEN <<key, counts[i][2] + w>> ELSE counts[i]],
                      Tail(tags), w)
       ELSE AddCounts(Append(counts, <<key, w>>), Tail(tags), w)

\* The page's DOM nodes that pass t.startsWith("#") && t.length < 50, trimmed.
DomMaxLen == 50
DomTags(nodes) ==
  LET ok == SelectSeq(nodes, LAMBDA t : startsWith(t, <<"#">>) /\ Len(t) < DomMaxLen)
  IN [i \in 1..Len(ok) |-> trim(ok[i])]

\* Object.entries(counts).map(([tag, score]) => ({tag, score}))
\*   .sort((a, b) => b.score - a.score).slice(0, cap)
RankHashtags(counts, cap) ==
  LET ents   == ObjectEntries(counts)
      sorted == SortDesc([i \in 1..Len(ents) |-> <<ents[i][2], ents[i]>>])
  IN slice0([i \in 1..Len(sorted) |->
               [tag |-> sorted[i][2][1], score |-> sorted[i][2][2]]], cap)

(***************************************************************************)
(* Bounds and enumerated inputs.                                           *)
(***************************************************************************)
MaxWrites == 2        \* snapshot writes in one behaviour (server timestamps)
MaxLimit == 5         \* largest caller-supplied limit
MaxNegLimit == 1      \* caller-supplied limits go down to -MaxNegLimit

DefaultLimit == 12    \* { limit = 12 } = req.body
TopKeywords == 10     \* extractKeywords(text, 10)
DomWeight == 5        \* counts[key] + 5 for a DOM tag
SliceCap == 150       \* .slice(0, 150)
OldSliceCap == 200    \* .slice(0, 200) in the older scraper

global == <<"g","l","o","b","a","l">>
\* Object.keys(COUNTRY_PLACE_IDS)
PlaceKeys == << global, <<"U","S">>, <<"J","P">>, <<"I","N">> >>
ReqCountries == { <<"G","l","o","b","a","l">>, <<"u","s">>, <<"U","S">> }
Countries == ReqCountries \cup Range(PlaceKeys)
DocIds == UNION { {c, toLowerCase(c), toUpperCase(c)} : c \in Countries }

\* Request texts: empty, too short, short after trimming, long enough
\* without any keyword, and texts with one or two keywords.
Texts ==
  { <<>>,
    <<"a","b">>,
    <<" ","a","b"," ">>,
    <<"a"," ","b">>,
    <<"a","b","c">>,
    <<"<","b",">","A","B","C","<","/","b",">">>,
    <<"x","y","z"," ","a","b","c"," "," ","x","y","z">> }

Limits == (0 - MaxNegLimit)..MaxLimit

\* The rate limiter as configured by RATE_LIMIT_POINTS and
\* RATE_LIMIT_DURATION, the callers (req.ip), and how long and for how many
\* requests a behaviour goes on.
RateLimitPoints == 2
RateLimitDuration == 2
MaxClock == 3
MaxRequests == RateLimitPoints + 2
Ips == {"ip1", "ip2"}
\* no record of the caller in the limiter's memory
NoPoints == [used |-> 0, expires |-> 0]

\* req.body of POST /generate; a field that is not given is undefined.
Bodies ==
  [ hasText : BOOLEAN, text : Texts,
    hasCountry : BOOLEAN, country : ReqCountries \cup {global},
    hasLimit : BOOLEAN, limit : Limits ]
\* one representative per undefined field
BodiesNorm ==
  { b \in Bodies :
      /\ (~b.hasText => b.text = <<>>)
      /\ (~b.hasCountry => b.country = global)
      /\ (~b.hasLimit => b.limit = 0) }

\* Pages the scraper loads: document.body.innerText and the texts of the
\* nodes the selectors find.
Pages ==
  { [text |-> <<>>, nodes |-> <<>>],
    [text |-> <<"#","a","b","c"," ","#","X","y","z"," ","#","x","y","z">>,
     nodes |-> <<>>],
    [text |-> <<>>, nodes |-> << <<"#","#","#","a","b","c">> >>],
    [text |-> <<"#","a","b","c">>,
     nodes |-> << <<"#","#","a","b","c"," ">>, <<"a","b","c">> >>],
    [text |-> <<"#","#","z","#","a","b","c","d">>,
     nodes |-> << <<"#","z">> >>] }

\* Post descriptions the place-posts API returns (data.posts).
Feeds ==
  { <<>>,
    << <<"#","a","b","c"," ","#","x","y","z">>, <<"n","o"," ","#","X","Y","Z">> >>,
    << <<"#","a","b","c">> >> }

\* data.hashtags of the trending API, stored as received.
ApiHashtags ==
  { <<>>,
    << [tag |-> <<"#","x","y","z">>, score |-> 2],
       [tag |-> <<"#","a","b","c">>, score |-> 1] >>,
    << [tag |-> <<"#","a","b","c">>, score |-> 1],
       [tag |-> <<"#","x","y","z">>, score |-> 2] >> }

(***************************************************************************)
(* State.                                                                  *)
(***************************************************************************)
VARIABLES
  store,      \* Firestore: document id -> document of collection "trending"
  now,        \* number of writes so far; serverTimestamp() of the next one
  written,    \* every <<id, document>> a writer has handed to docRef.set
  pc,         \* the request in flight: "idle", "awaitGet", "gotDoc", "done"
  route,      \* "generate" or "trending"
  body,       \* req.body of the request
  keywords,   \* const keywords
  candidates, \* const candidates = new Set(), in insertion order
  docId,      \* the document id getTrending asked for
  snap,       \* const snap = await docRef.get()
  trendDoc,   \* const trendDoc / data: what getTrending returned
  res,        \* the response sent
  reads,      \* docRef.get() calls of this request
  extracts,   \* extractKeywords calls of this request
  crashed,    \* an exception escaped a handler
  scrapeRes,  \* response of the last POST /scrape
  cronIdx,    \* the scheduled run: 0 when idle, else the next key to scrape
  browser,    \* the browser of the last POST /scrape: "none", "open", "closed"
  limits,     \* the limiter's memory: caller -> points consumed, expiry
  clock,      \* the time, in seconds
  reqs        \* the requests that reached the rate-limit middleware

vars == <<store, now, written, pc, route, body, keywords, candidates, docId,
          snap, trendDoc, res, reads, extracts, crashed, scrapeRes, cronIdx,
          browser, limits, clock, reqs>>
reqVars == <<pc, route, body, keywords, candidates, docId, snap, trendDoc, res,
             reads, extracts, crashed>>
storeVars == <<store, now, written>>
limVars == <<limits, clock, reqs>>

NoRes == [status |-> 0, error |-> "", generated |-> <<>>, keywords |-> <<>>,
          sourceUpdatedAt |-> Null, data |-> Undefined]
NoBody == [hasText |-> FALSE, text |-> <<>>, hasCountry |-> FALSE,
           country |-> global, hasLimit |-> FALSE, limit |-> 0]

Init ==
  /\ store = [d \in DocIds |-> Missing]
  /\ now = 0
  /\ written = {}
  /\ pc = "idle"
  /\ route = "generate"
  /\ body = NoBody
  /\ keywords = <<>>
  /\ candidates = <<>>
  /\ docId = global
  /\ snap = NoSnap
  /\ trendDoc = Undefined
  /\ res = NoRes
  /\ reads = 0
  /\ extracts = 0
  /\ crashed = FALSE
  /\ scrapeRes = [status |-> 0]
  /\ cronIdx = 0
  /\ browser = "none"
  /\ limits = [ip \in Ips |-> NoPoints]
  /\ clock = 0
  /\ reqs = <<>>

(***************************************************************************)
(* Writers.                                                                *)
(***************************************************************************)
\* a write that replaces the hashtags and leaves the timestamp of an
\* existing document
DocSetKeepsTimestamp(old, data) ==
  IF old.exists THEN [data EXCEPT !.updatedAt = old.data.updatedAt] ELSE data
\* docRef.set(data): the document is replaced as a whole.
DocSet(old, data) == data

\* { updatedAt: serverTimestamp(), hashtags, ... }
Snapshot(hashtags, t) == [updatedAt |-> <<t>>, hashtags |-> hashtags]

Write(id, hashtags) ==
  LET doc == Snapshot(hashtags, now + 1) IN
  /\ now < MaxWrites
  /\ store' = [store EXCEPT
                 ![id] = [exists |-> TRUE, data |-> DocSet(store[id], doc)]]
  /\ now' = now + 1
  /\ written' = written \cup {<<id, doc>>}

\* fetchTrendingForCountry of server.js: text matches count 1, DOM tags 5.
ScrapedHashtags(page) ==
  RankHashtags(AddCounts(AddCounts(<<>>, MatchHashtags(page.text), 1),
                         DomTags(page.nodes), DomWeight),
               SliceCap)

\* What fetchTrendingForCountry("global") does to the store: the snapshot
\* is written when nothing failed before or in docRef.set.
ScrapeStore(page, outcome) ==
  IF outcome = "saved" THEN Write(global, ScrapedHashtags(page))
  ELSE UNCHANGED storeVars
\* The response of POST /scrape: puppeteer.launch is outside the try of
\* fetchTrendingForCountry, so its failure reaches the handler's catch; an
\* error of the scrape or of the write is caught and logged inside, and
\* the handler answers success.
ScrapeResponse(outcome) ==
  [status |-> IF outcome = "launchFails" THEN 500 ELSE 200]
\* POST /scrape of server.js: fetchTrendingForCountry("global"), which
\* closes the browser in its finally, then the response.
Scrape ==
  /\ ~crashed
  /\ \E page \in Pages, outcome \in {"launchFails", "scrapeFails", "saved"} :
       /\ ScrapeStore(page, outcome)
       /\ scrapeRes' = ScrapeResponse(outcome)
       /\ browser' = IF outcome = "launchFails" THEN "none" ELSE "closed"
  /\ UNCHANGED <<reqVars, cronIdx, limVars>>

\* scraper.js: fetchTrendingForCountry("global") at start and on every cron
\* tick; the same counting as the server's, written to doc(countryCode).
ScheduledScrape ==
  /\ \E page \in Pages, ok \in BOOLEAN :
       IF ok THEN Write(global, ScrapedHashtags(page))
             ELSE UNCHANGED storeVars
  /\ UNCHANGED <<reqVars, scrapeRes, cronIdx, browser, limVars>>

\* The older scraper: DOM tags neither trimmed nor length-checked, each
\* counted 1; the top 200 are kept.
OldScrapedHashtags(page) ==
  RankHashtags(AddCounts(AddCounts(<<>>, MatchHashtags(page.text), 1),
                         SelectSeq(page.nodes, LAMBDA t : startsWith(t, <<"#">>)),
                         1),
               OldSliceCap)
\* db.collection("trending").doc(countryCode.toLowerCase())
OldScheduledScrape ==
  /\ \E page \in Pages, ok \in BOOLEAN :
       IF ok THEN Write(toLowerCase(global), OldScrapedHashtags(page))
             ELSE UNCHANGED storeVars
  /\ UNCHANGED <<reqVars, scrapeRes, cronIdx, browser, limVars>>

\* POST /scrape of the trending-API server: the API's list is stored as it
\* came, under the upper-cased country of the query.
RapidScrape ==
  /\ ~crashed
  /\ \E hasCountry \in BOOLEAN, c \in ReqCountries, api \in ApiHashtags,
        ok \in BOOLEAN :
       LET country == toUpperCase(IF hasCountry THEN c ELSE <<"U","S">>) IN
       /\ (~hasCountry => c = <<"U","S">>)
       /\ IF ok THEN /\ Write(country, api)
                     /\ scrapeRes' = [status |-> 200]
                ELSE /\ UNCHANGED storeVars
                     /\ scrapeRes' = [status |-> 500]
  /\ UNCHANGED <<reqVars, cronIdx, browser, limVars>>

\* fetchTrendingHashtags of the place-posts server: hashtags of the posts'
\* descriptions, each match counted 1.
RECURSIVE FeedTags(_)
FeedTags(feed) ==
  IF Len(feed) = 0 THEN <<>>
  ELSE MatchHashtags(feed[1]) \o FeedTags(Tail(feed))
PostHashtags(feed) == RankHashtags(AddCounts(<<>>, FeedTags(feed), 1), SliceCap)
\* db.collection("trending").doc(country).set(...); a failed fetch or write
\* is caught and nothing is stored.
FetchTrendingHashtags(country) ==
  \E feed \in Feeds, ok \in BOOLEAN :
    IF ok THEN Write(country, PostHashtags(feed)) ELSE UNCHANGED storeVars

\* POST /scrape of the place-posts server, country lower-cased.
PlaceScrape ==
  /\ ~crashed
  /\ \E hasCountry \in BOOLEAN, c \in ReqCountries :
       /\ (~hasCountry => c = <<"u","s">>)
       /\ FetchTrendingHashtags(toLowerCase(IF hasCountry THEN c ELSE global))
  /\ scrapeRes' = [status |-> 200]
  /\ UNCHANGED <<reqVars, cronIdx, browser, limVars>>

\* cron.schedule: for (const country of Object.keys(COUNTRY_PLACE_IDS))
CronStart ==
  /\ cronIdx = 0
  /\ cronIdx' = 1
  /\ UNCHANGED <<storeVars, reqVars, scrapeRes, browser, limVars>>
CronStep ==
  /\ cronIdx > 0
  /\ FetchTrendingHashtags(PlaceKeys[cronIdx])
  /\ cronIdx' = IF cronIdx = Len(PlaceKeys) THEN 0 ELSE cronIdx + 1
  /\ UNCHANGED <<reqVars, scrapeRes, browser, limVars>>

(***************************************************************************)
(* Request handlers of server.js.                                          *)
(***************************************************************************)
\* const { text = "", country = "global", limit = 12 } = req.body || {}
TextOf(b) == IF b.hasText THEN b.text ELSE <<>>
CountryOf(b) == IF b.hasCountry THEN b.country ELSE global
\* limit || 12: a limit of 0 is taken as not given
LimitOrDefault(b) == IF b.hasLimit /\ b.limit # 0 THEN b.limit ELSE DefaultLimit
LimitOf(b) == IF b.hasLimit THEN b.limit ELSE DefaultLimit

\* the length test without the trim
InvalidUntrimmed(text) == text = <<>> \/ Len(text) < 3
\* !text || text.trim().length < 3
Invalid(text) == text = <<>> \/ Len(trim(text)) < 3

\* the extractor asked for as many keywords as the caller's limit
KeywordsUpToLimit(b) == extractKeywords(TextOf(b), LimitOf(b))
\* const keywords = extractKeywords(text, 10)
KeywordsOf(b) == extractKeywords(TextOf(b), TopKeywords)

\* db.collection("trending").doc(country.toLowerCase())
TrendingDocId(country) == toLowerCase(country)

\* snap.data() whether or not the document exists
TrendingDataNoDefault(s) == s.data
\* if (!snap.exists) return { updatedAt: null, hashtags: [] }; return snap.data()
TrendingData(s) == IF ~s.exists THEN DefaultTrending ELSE s.data

\* a handler without the try/catch: no response, an unhandled rejection
Rethrow(r) == [res |-> NoRes, crashed |-> TRUE]
\* catch (err) { console.error(err); res.status(500).json({ error }) }
Catch(r) ==
  [res |-> [NoRes EXCEPT !.status = 500,
                         !.error = IF r = "generate"
                                   THEN "Could not generate hashtags"
                                   ELSE "Server error"],
   crashed |-> FALSE]

\* The body of POST /generate after the await.  Reading a property of
\* undefined throws a TypeError, which the handler's catch answers.
GenerateResponse(kws, doc, limit) ==
  IF doc = Undefined THEN Catch("generate")
  ELSE [res |-> [NoRes EXCEPT
                   !.status = 200,
                   !.generated = Assemble(Candidates(kws, TrendList(doc), limit),
                                          limit),
                   !.keywords = kws,
                   !.sourceUpdatedAt = doc.updatedAt],
        crashed |-> FALSE]

\* POST /generate up to the await of getTrending.
GenerateStart ==
  /\ pc = "idle"
  /\ ~crashed
  /\ \E b \in BodiesNorm :
       /\ body' = b
       /\ route' = "generate"
       /\ snap' = NoSnap
       /\ trendDoc' = Undefined
       /\ candidates' = <<>>
       /\ reads' = 0
       /\ IF Invalid(TextOf(b))
          THEN /\ res' = [NoRes EXCEPT !.status = 400, !.error = "Provide text"]
               /\ pc' = "done"
               /\ keywords' = <<>>
               /\ extracts' = 0
               /\ docId' = global
          ELSE /\ keywords' = KeywordsOf(b)
               /\ extracts' = 1
               /\ docId' = TrendingDocId(CountryOf(b))
               /\ res' = NoRes
               /\ pc' = "awaitGet"
  /\ UNCHANGED <<storeVars, crashed, scrapeRes, cronIdx, browser, limVars>>

\* GET /trending up to the await of getTrending.
TrendingStart ==
  /\ pc = "idle"
  /\ ~crashed
  /\ \E hasCountry \in BOOLEAN, c \in ReqCountries :
       /\ (~hasCountry => c = CHOOSE x \in ReqCountries : TRUE)
       /\ body' = [NoBody EXCEPT !.hasCountry = hasCountry,
                                 !.country = IF hasCountry THEN c ELSE global]
       /\ docId' = TrendingDocId(toLowerCase(IF hasCountry THEN c ELSE global))
  /\ route' = "trending"
  /\ keywords' = <<>>
  /\ candidates' = <<>>
  /\ extracts' = 0
  /\ reads' = 0
  /\ snap' = NoSnap
  /\ trendDoc' = Undefined
  /\ res' = NoRes
  /\ pc' = "awaitGet"
  /\ UNCHANGED <<storeVars, crashed, scrapeRes, cronIdx, browser, limVars>>

\* docRef.get() answers: the document as it is in the store at that moment.
StoreGet ==
  /\ pc = "awaitGet"
  /\ reads' = reads + 1
  /\ snap' = Resolved(store[docId])
  /\ trendDoc' = TrendingData(snap')
  /\ pc' = "gotDoc"
  /\ UNCHANGED <<storeVars, route, body, keywords, candidates, docId, res,
                 extracts, crashed, scrapeRes, cronIdx, browser, limVars>>

\* docRef.get() rejects: the await throws into the handler's catch.
StoreGetFails ==
  /\ pc = "awaitGet"
  /\ reads' = reads + 1
  /\ snap' = Rejected
  /\ res' = Catch(route).res
  /\ crashed' = Catch(route).crashed
  /\ pc' = "done"
  /\ UNCHANGED <<storeVars, route, body, keywords, candidates, docId,
                 trendDoc, extracts, scrapeRes, cronIdx, browser, limVars>>

\* POST /generate after the await: candidates, final list, response.
GenerateFinish ==
  /\ pc = "gotDoc"
  /\ route = "generate"
  /\ LET out == GenerateResponse(keywords, trendDoc, LimitOf(body))
     IN /\ res' = out.res
        /\ crashed' = out.crashed
  /\ candidates' = IF trendDoc = Undefined THEN candidates
                   ELSE Candidates(keywords, TrendList(trendDoc), LimitOf(body))
  /\ pc' = "done"
  /\ UNCHANGED <<storeVars, route, body, keywords, docId, snap, trendDoc,
                 reads, extracts, scrapeRes, cronIdx, browser, limVars>>

\* GET /trending after the await: res.json(data).
TrendingFinish ==
  /\ pc = "gotDoc"
  /\ route = "trending"
  /\ res' = [NoRes EXCEPT !.status = 200, !.data = trendDoc]
  /\ pc' = "done"
  /\ UNCHANGED <<storeVars, route, body, keywords, candidates, docId, snap,
                 trendDoc, reads, extracts, crashed, scrapeRes, cronIdx,
                 browser, limVars>>

\* The response has been sent; the server takes the next request.
RequestEnds ==
  /\ pc = "done"
  /\ ~crashed
  /\ pc' = "idle"
  /\ route' = "generate"
  /\ body' = NoBody
  /\ keywords' = <<>>
  /\ candidates' = <<>>
  /\ docId' = global
  /\ snap' = NoSnap
  /\ trendDoc' = Undefined
  /\ res' = NoRes
  /\ reads' = 0
  /\ extracts' = 0
  /\ UNCHANGED <<storeVars, crashed, scrapeRes, cronIdx, browser, limVars>>

Next ==
  \/ GenerateStart
  \/ TrendingStart
  \/ StoreGet
  \/ StoreGetFails
  \/ GenerateFinish
  \/ TrendingFinish
  \/ RequestEnds
  \/ Scrape

Spec == Init /\ [][Next]_vars

\* The place-posts server: its reads, POST /scrape and scheduled run.
NextPlaces ==
  \/ TrendingStart
  \/ StoreGet
  \/ StoreGetFails
  \/ TrendingFinish
  \/ RequestEnds
  \/ PlaceScrape
  \/ CronStart
  \/ CronStep
SpecPlaces == Init /\ [][NextPlaces]_vars

\* Every writer of collection "trending".
NextWriters ==
  \/ Scrape
  \/ ScheduledScrape
  \/ OldScheduledScrape
  \/ RapidScrape
  \/ PlaceScrape
  \/ CronStart
  \/ CronStep
SpecWriters == Init /\ [][NextWriters]_vars
(***************************************************************************)
(* The keyword and candidate pipeline of POST /generate, statement by      *)
(* statement, over a wider set of texts and trend snapshots.               *)
(***************************************************************************)
\* Words the request texts are made of: keywords, a number, a word that is
\* too short, capitals, markup and a bare ampersand.
PipeWords ==
  { <<>>,
    <<"a","b","c">>,
    <<"x","y","z">>,
    <<"1","2","3">>,
    <<"a","b">>,
    <<"A","b","c">>,
    <<"<","i",">","x","y","z">>,
    <<"&">> }
\* a text with eleven different keywords, the third one twice
ElevenWords ==
  <<"a","a","a"," ","b","b","b"," ","c","c","c"," ","d","d","d"," ",
    "e","e","e"," ","f","f","f"," ","g","g","g"," ","h","h","h"," ",
    "i","i","i"," ","j","j","j"," ","k","k","k"," ","c","c","c">>
PipeTexts ==
  { w1 \o <<" ">> \o w2 \o <<" ">> \o w3 : w1, w2, w3 \in PipeWords }
    \cup { <<"a","b","c"," ","x","y","z">>, ElevenWords }

\* Pages whose scraped hashtags make the trend snapshots of the pipeline.
PipePages ==
  Pages \cup
  { [text |-> <<"#","a","b","c","d"," ","#","q","r","s"," ","#","1","2","3",
                " ","#","x","y","z","z"," ","#","q","r","s">>,
     nodes |-> <<>>] }
PipeTrendDocs ==
  {DefaultTrending} \cup { Snapshot(ScrapedHashtags(p), 1) : p \in PipePages }

InitPipeline ==
  /\ store = [d \in DocIds |-> Missing]
  /\ now = 0
  /\ written = {}
  /\ pc = "text"
  /\ route = "generate"
  /\ \E t \in PipeTexts, hasLimit \in BOOLEAN, limit \in Limits :
       /\ (~hasLimit => limit = 0)
       /\ body = [NoBody EXCEPT !.hasText = TRUE, !.text = t,
                                !.hasLimit = hasLimit, !.limit = limit]
  /\ keywords = <<>>
  /\ candidates = <<>>
  /\ docId = global
  /\ snap = NoSnap
  /\ trendDoc = Undefined
  /\ res = NoRes
  /\ reads = 0
  /\ extracts = 0
  /\ crashed = FALSE
  /\ scrapeRes = [status |-> 0]
  /\ cronIdx = 0
  /\ browser = "none"
  /\ limits = [ip \in Ips |-> NoPoints]
  /\ clock = 0
  /\ reqs = <<>>

pipeFixed == <<storeVars, route, docId, snap, reads, crashed, scrapeRes,
               cronIdx, browser, limVars>>

\* keywords.join(" ")
RECURSIVE JoinSp(_)
JoinSp(ws) ==
  IF Len(ws) = 0 THEN <<>>
  ELSE IF Len(ws) = 1 THEN ws[1]
  ELSE ws[1] \o <<" ">> \o JoinSp(Tail(ws))

\* const keywords = extractKeywords(text, 10)
ExtractKeywords ==
  /\ pc = "text"
  /\ keywords' = KeywordsOf(body)
  /\ extracts' = extracts + 1
  /\ pc' = "keywords"
  /\ UNCHANGED <<pipeFixed, body, candidates, trendDoc, res>>

\* extractKeywords applied to the space-joined keywords
ExtractAgain ==
  /\ pc = "keywords"
  /\ res' = [NoRes EXCEPT
               !.keywords = extractKeywords(JoinSp(keywords), TopKeywords)]
  /\ extracts' = extracts + 1
  /\ pc' = "again"
  /\ UNCHANGED <<pipeFixed, body, keywords, candidates, trendDoc>>

\* The request goes on with the snapshot getTrending returned; rule 1 fills
\* the empty set.
RunRule1 ==
  /\ pc = "keywords"
  /\ ~Invalid(TextOf(body))
  /\ \E doc \in PipeTrendDocs :
       /\ trendDoc' = doc
       /\ candidates' = Rule1(<<>>, keywords, TrendList(doc))
  /\ pc' = "rule1"
  /\ UNCHANGED <<pipeFixed, body, keywords, res, extracts>>

RunRule2 ==
  /\ pc = "rule1"
  /\ candidates' = Rule2(candidates, keywords)
  /\ pc' = "rule2"
  /\ UNCHANGED <<pipeFixed, body, keywords, trendDoc, res, extracts>>

RunRule3 ==
  /\ pc = "rule2"
  /\ candidates' = Rule3(candidates, TrendList(trendDoc), LimitOf(body))
  /\ pc' = "rule3"
  /\ UNCHANGED <<pipeFixed, body, keywords, trendDoc, res, extracts>>

\* const generated = Array.from(candidates).slice(0, limit).map(...); res.json
Respond ==
  /\ pc = "rule3"
  /\ res' = [NoRes EXCEPT !.status = 200,
                          !.generated = Assemble(candidates, LimitOf(body)),
                          !.keywords = keywords,
                          !.sourceUpdatedAt = trendDoc.updatedAt]
  /\ pc' = "done"
  /\ UNCHANGED <<pipeFixed, body, keywords, candidates, trendDoc, extracts>>

NextPipeline ==
  \/ ExtractKeywords
  \/ ExtractAgain
  \/ RunRule1
  \/ RunRule2
  \/ RunRule3
  \/ Respond
SpecPipeline == InitPipeline /\ [][NextPipeline]_vars

(***************************************************************************)
(* The rate-limit middleware, in front of every endpoint.                  *)
(***************************************************************************)
\* limiter.consume(key) of RateLimiterMemory: a caller without a live record
\* gets a new one that expires after the duration; the point is counted in
\* any case.
Consumed(rec, t) ==
  IF rec.used = 0 \/ t >= rec.expires
  THEN [used |-> 1, expires |-> t + RateLimitDuration]
  ELSE [rec EXCEPT !.used = rec.used + 1]
\* the promise rejects when more than the points are consumed
ConsumeOutcome(rec) ==
  IF rec.used > RateLimitPoints THEN "rejected" ELSE "resolved"

\* a middleware that calls next() after the 429 as well
AfterConsumeFallThrough(r) ==
  IF r.promise = "resolved"
  THEN [r EXCEPT !.stage = "handler", !.handed = r.handed + 1]
  ELSE [r EXCEPT !.stage = "handler", !.status = 429,
                 !.error = "Too many requests", !.handed = r.handed + 1]
\* try { await limiter.consume(req.ip); next(); }
\* catch (err) { res.status(429).json({ error: "Too many requests" }); }
AfterConsume(r) ==
  IF r.promise = "resolved"
  THEN [r EXCEPT !.stage = "handler", !.handed = r.handed + 1]
  ELSE [r EXCEPT !.stage = "answered", !.status = 429,
                 !.error = "Too many requests"]

\* A request reaches the middleware, which calls limiter.consume(req.ip).
\* The promise of the in-memory limiter is settled when consume returns, so
\* the middleware of the request before has resumed (a microtask) when the
\* next request is taken up.
RequestArrives ==
  /\ Len(reqs) < MaxRequests
  /\ \A i \in 1..Len(reqs) : reqs[i].stage # "awaitConsume"
  /\ \E ip \in Ips :
       LET rec == Consumed(limits[ip], clock) IN
       /\ limits' = [limits EXCEPT ![ip] = rec]
       /\ reqs' = Append(reqs, [ip |-> ip, at |-> clock,
                                promise |-> ConsumeOutcome(rec),
                                stage |-> "awaitConsume", handed |-> 0,
                                status |-> 0, error |-> ""])
  /\ UNCHANGED <<storeVars, reqVars, scrapeRes, cronIdx, browser, clock>>

\* The await of the middleware settles: next() or the 429 response.
MiddlewareResumes ==
  /\ \E i \in 1..Len(reqs) :
       /\ reqs[i].stage = "awaitConsume"
       /\ reqs' = [reqs EXCEPT ![i] = AfterConsume(reqs[i])]
  /\ UNCHANGED <<storeVars, reqVars, scrapeRes, cronIdx, browser, limits, clock>>

\* The endpoint handler the request was handed to sends its response.
HandlerAnswers ==
  /\ \E i \in 1..Len(reqs) :
       /\ reqs[i].stage = "handler"
       /\ reqs[i].status = 0
       /\ reqs' = [reqs EXCEPT ![i].stage = "answered", ![i].status = 200]
  /\ UNCHANGED <<storeVars, reqVars, scrapeRes, cronIdx, browser, limits, clock>>

\* A second passes.
Tick ==
  /\ clock < MaxClock
  /\ clock' = clock + 1
  /\ UNCHANGED <<storeVars, reqVars, scrapeRes, cronIdx, browser, limits, reqs>>

NextLimiter ==
  \/ RequestArrives
  \/ MiddlewareResumes
  \/ HandlerAnswers
  \/ Tick
SpecLimiter == Init /\ [][NextLimiter]_vars

(***************************************************************************)
(* Properties of POST /generate and GET /trending.                         *)
(***************************************************************************)
Generated == pc = "done" /\ route = "generate" /\ res.status = 200
\* the text is missing, empty, or shorter than 3 characters once trimmed
TextRejected(b) == ~b.hasText \/ b.text = <<>> \/ Len(trim(b.text)) < 3
ExactlyOneHash(x) ==
  Len(x) >= 1 /\ x[1] = "#" /\ (Len(x) >= 2 => x[2] # "#")
Variations(k) ==
  { <<"#">> \o k, <<"#">> \o k \o <<"t","o","k">>,
    <<"#">> \o k \o <<"t","i","k","t","o","k">> }

\* C1: a /generate request whose text is missing, empty or shorter than 3
\* characters after trimming is answered 400, and neither extractKeywords
\* nor the store read is called for it.
C1_ShortTextRejected ==
  (route = "generate" /\ pc # "idle" /\ TextRejected(body))
    => (pc = "done" /\ res.status = 400 /\ extracts = 0 /\ reads = 0)
C1_Witness ==
  /\ pc = "done" /\ route = "generate" /\ res.status = 400
  /\ body.hasText /\ body.text = <<" ","a","b"," ">>

\* C2 (as claimed): the generated list of a successful response is never
\* longer than the caller's limit, negative limits included.
C2_LengthAtMostLimit == Generated => Len(res.generated) <= LimitOf(body)
\* C2 (amended): for a limit >= 0 the generated list has at most limit
\* elements; for a limit < 0 it is the candidate sequence without its last
\* -limit elements.
C2_LengthAtMostNonNegLimit ==
  Generated =>
    LET limit == LimitOf(body)
        n == Len(Candidates(res.keywords, TrendList(trendDoc), limit))
    IN /\ (limit >= 0 => Len(res.generated) <= limit)
       /\ (limit < 0 => Len(res.generated) = IF n + limit < 0 THEN 0 ELSE n + limit)
C2_Witness ==
  /\ Generated /\ body.hasLimit /\ body.limit = 1
  /\ Len(res.keywords) = 2 /\ Len(res.generated) = 1

\* C3: every element of the generated list starts with exactly one '#'.
C3_ExactlyOneHash ==
  Generated => \A i \in 1..Len(res.generated) : ExactlyOneHash(res.generated[i])

\* C4: the generated list holds no string twice.
C4_NoDuplicates ==
  Generated =>
    \A i, j \in 1..Len(res.generated) :
      res.generated[i] = res.generated[j] => i = j

\* C5: when the read finds no document, getTrending returns the default
\* {updatedAt: null, hashtags: []}, and the request succeeds with
\* sourceUpdatedAt null and only '#' + rule-2 variations of its keywords.
C5_AbsentSnapshotDefault ==
  (route = "generate" /\ snap.state = "ok" /\ ~snap.exists)
    => /\ trendDoc = DefaultTrending
       /\ pc = "done" =>
            /\ res.status = 200
            /\ res.sourceUpdatedAt = Null
            /\ res.keywords = keywords
            /\ \A i \in 1..Len(res.generated) :
                 \E j \in 1..Len(keywords) :
                   res.generated[i] \in Variations(keywords[j])
C5_Witness ==
  /\ Generated /\ snap.state = "ok" /\ ~snap.exists
  /\ Len(res.keywords) = 2 /\ Len(res.generated) = 6

\* C6: with valid text and limit = 0 a request whose read succeeds ends in
\* a success response with an empty generated list.
C6_LimitZeroEmpty ==
  (pc = "done" /\ route = "generate" /\ snap.state = "ok"
     /\ body.hasLimit /\ body.limit = 0)
    => (res.status = 200 /\ res.generated = <<>>)
C6_Witness ==
  /\ Generated /\ body.hasLimit /\ body.limit = 0
  /\ Len(res.keywords) > 0 /\ Len(trendDoc.hashtags) > 0
  /\ res.generated = <<>>

\* C8: a rejected store read ends the request with a generic 500 response
\* after exactly one read, and the server is not crashed and takes the next
\* request.
C8_ReadFailureIs500 ==
  snap.state = "rejected"
    => /\ pc = "done"
       /\ res.status = 500
       /\ res.error \in {"Could not generate hashtags", "Server error"}
       /\ reads = 1
       /\ ~crashed
       /\ ENABLED RequestEnds
C8_Witness ==
  snap.state = "rejected" /\ route = "generate" /\ res.status = 500 /\ now > 0

\* C9: every stored document is one a writer handed to set() as a whole,
\* and a successful response is computed, list and timestamp, from one such
\* document (or the default) read by the request's single read.
C9_OneSnapshotPerResponse ==
  /\ \A d \in DocIds : store[d].exists => <<d, store[d].data>> \in written
  /\ Generated =>
       /\ reads = 1
       /\ \E D \in {w[2] : w \in written} \cup {DefaultTrending} :
            /\ res.sourceUpdatedAt = D.updatedAt
            /\ res.generated =
                 Assemble(Candidates(res.keywords, TrendList(D), LimitOf(body)),
                          LimitOf(body))
\* a response computed from the old snapshot after the new one is stored
C9_Witness ==
  /\ Generated /\ snap.exists /\ store[docId].exists
  /\ snap.data # store[docId].data
  /\ res.sourceUpdatedAt = snap.data.updatedAt
  /\ Len(res.generated) > 0

(***************************************************************************)
(* Properties of keyword extraction.                                       *)
(***************************************************************************)
\* C11: whatever the text, every token extractKeywords returns has at
\* least 3 characters.
C11_NoShortKeyword ==
  /\ \A i \in 1..Len(keywords) : Len(keywords[i]) >= 3
  /\ \A i \in 1..Len(res.keywords) : Len(res.keywords[i]) >= 3
\* "ab abc ab": the two-character token is dropped, the keyword stays
C11_Witness ==
  /\ pc = "keywords"
  /\ body.text = <<"a","b"," ","a","b","c"," ","a","b">>
  /\ keywords = << <<"a","b","c">> >>

\* The tokens of a text as they stand in it, short ones left out.
TokensOf(text) == SelectSeq(tokenize(clean(text)), LAMBDA t : Len(t) >= 3)
Frequency(t, toks) == Cardinality({ i \in 1..Len(toks) : toks[i] = t })
FirstSeen(t, toks) == CHOOSE i \in 1..Len(toks) :
                        toks[i] = t /\ \A j \in 1..(i - 1) : toks[j] # t

\* C13: the returned tokens are in order of non-increasing frequency in
\* the text, and of two tokens of equal frequency the one that occurs first
\* in the text comes first, tokens made only of digits included.
C13_RankedByFrequencyThenFirstSeen ==
  pc = "keywords" =>
    LET toks == TokensOf(body.text) IN
    \A i, j \in 1..Len(keywords) :
      i < j =>
        \/ Frequency(keywords[i], toks) > Frequency(keywords[j], toks)
        \/ /\ Frequency(keywords[i], toks) = Frequency(keywords[j], toks)
           /\ FirstSeen(keywords[i], toks) < FirstSeen(keywords[j], toks)

\* lowercase, single-spaced, trimmed, and free of the characters of markup
IsCleanText(t) ==
  /\ \A i \in 1..Len(t) : ~IsUpper(t[i]) /\ t[i] \notin {"<", ">", "&"}
  /\ \A i \in 1..(Len(t) - 1) : ~(IsSpace(t[i]) /\ IsSpace(t[i + 1]))
  /\ Len(t) > 0 => ~IsSpace(t[1]) /\ ~IsSpace(t[Len(t)])

\* C14: for a text that is already clean the normalisation returns the text
\* itself, and extractKeywords of the space-joined keywords of the text
\* returns those keywords again, in the same order.
C14_IdempotentOnCleanText ==
  (pc = "again" /\ IsCleanText(body.text))
    => /\ clean(body.text) = body.text
       /\ res.keywords = keywords

\* C12: the keywords of a /generate response are at most 10, all
\* different, and the same whatever limit the caller gave: the ten first
\* of the text's ranked tokens.
C12_AtMostTenDistinctKeywords ==
  (pc = "done" /\ route = "generate" /\ res.status = 200)
    => /\ Len(res.keywords) <= 10
       /\ \A i, j \in 1..Len(res.keywords) :
            res.keywords[i] = res.keywords[j] => i = j
       /\ res.keywords = extractKeywords(body.text, 10)
\* eleven different keywords in the text, ten in the response, limit 1
C12_Witness ==
  /\ pc = "done" /\ res.status = 200
  /\ body.text = ElevenWords /\ body.hasLimit /\ body.limit = 1
  /\ Len(res.keywords) = 10 /\ Len(res.generated) = 1

(***************************************************************************)
(* Properties of candidate generation.                                     *)
(***************************************************************************)
\* rules 1 and 2 have run for the request in flight
AfterRule2 ==
  \/ pc \in {"rule2", "rule3"}
  \/ pc = "done" /\ route = "generate" /\ res.status = 200
\* the tag without its first character when that is '#'
Unhashed(t) == IF t # <<>> /\ Head(t) = "#" THEN Tail(t) ELSE t

\* C15: whatever the limit, once rules 1 and 2 have run the candidate set
\* holds, for every keyword k, the strings k, k+"tok" and k+"tiktok" and
\* every trend tag that contains k, its leading '#' taken off.
C15_Rules1And2Unconditional ==
  AfterRule2 =>
    \A i \in 1..Len(keywords) :
      LET k == keywords[i] IN
      /\ {k, k \o <<"t","o","k">>, k \o <<"t","i","k","t","o","k">>}
            \subseteq Range(candidates)
      /\ \A n \in 1..Len(trendDoc.hashtags) :
           LET t == toLowerCase(trendDoc.hashtags[n].tag) IN
           (\E a \in 0..(Len(t) - Len(k)) : SubSeq(t, a + 1, a + Len(k)) = k)
             => Unhashed(t) \in Range(candidates)
\* limit 1, one keyword, a trend list with one tag that holds it: the tag
\* and the three variations, four candidates
C15_Witness ==
  /\ pc = "rule3" /\ body.hasLimit /\ body.limit = 1
  /\ keywords = << <<"a","b","c">> >>
  /\ Len(trendDoc.hashtags) = 2
  /\ candidates = << <<"a","b","c","d">>, <<"a","b","c">>,
                     <<"a","b","c","t","o","k">>,
                     <<"a","b","c","t","i","k","t","o","k">> >>

\* a sequence without the later occurrences of its elements
FirstOccurrences(q) ==
  LET idx == SelectSeq([i \in 1..Len(q) |-> i],
                       LAMBDA i : \A j \in 1..(i - 1) : q[j] # q[i])
  IN [n \in 1..Len(idx) |-> q[idx[n]]]
IsPrefixOf(p, q) == Len(p) <= Len(q) /\ SubSeq(q, 1, Len(p)) = p
Max(a, b) == IF a >= b THEN a ELSE b
Min(a, b) == IF a <= b THEN a ELSE b
\* the trend tags, '#' taken off, that the set does not hold yet, in the
\* order of the trend list
FillTags(set) ==
  LET tags == [n \in 1..Len(trendDoc.hashtags) |->
                 Unhashed(toLowerCase(trendDoc.hashtags[n].tag))]
  IN SelectSeq(FirstOccurrences(tags), LAMBDA t : t \notin Range(set))

\* C16: rule 3 appends trend tags in trend-list order only while the set
\* has fewer than limit members and stops at the first test that finds
\* limit or more; the set it leaves has at most max(limit, size after
\* rules 1 and 2) members.
C16_Rule3SizeGated ==
  [][RunRule3 =>
       LET limit == LimitOf(body)
           room  == Max(0, limit - Len(candidates))
           fill  == FillTags(candidates)
       IN /\ candidates' = candidates \o SubSeq(fill, 1, Min(room, Len(fill)))
          /\ Len(candidates') <= Max(limit, Len(candidates))
          /\ Len(candidates') > limit => candidates' = candidates]_vars
\* limit 5: one tag from rule 1, three variations from rule 2, then the
\* first trend tag fills the set and the two tags after it are left out
C16_Witness ==
  /\ pc = "rule3" /\ body.hasLimit /\ body.limit = 5
  /\ keywords = << <<"x","y","z">> >>
  /\ Len(trendDoc.hashtags) = 4
  /\ candidates = << <<"x","y","z","z">>, <<"x","y","z">>,
                     <<"x","y","z","t","o","k">>,
                     <<"x","y","z","t","i","k","t","o","k">>,
                     <<"q","r","s">> >>

Contains(t, k) ==
  \E a \in 0..(Len(t) - Len(k)) : SubSeq(t, a + 1, a + Len(k)) = k
TrendTags == [n \in 1..Len(trendDoc.hashtags) |->
                toLowerCase(trendDoc.hashtags[n].tag)]
\* what rule 1 inserts: keyword by keyword, and for one keyword the trend
\* tags that hold it, in trend-list order
Rule1Insertions ==
  LET K == Len(keywords)
      N == Len(TrendTags)
      all == [p \in 1..(K * N) |->
                <<keywords[((p - 1) \div N) + 1], TrendTags[((p - 1) % N) + 1]>>]
      hit == SelectSeq(all, LAMBDA x : Contains(x[2], x[1]))
  IN [p \in 1..Len(hit) |-> Unhashed(hit[p][2])]
\* what rule 2 inserts: k, k+"tok", k+"tiktok", keyword by keyword
Rule2Insertions ==
  LET suffix == << <<>>, <<"t","o","k">>, <<"t","i","k","t","o","k">> >>
  IN [p \in 1..(3 * Len(keywords)) |->
        keywords[((p - 1) \div 3) + 1] \o suffix[((p - 1) % 3) + 1]]
\* what rule 3 inserts when it is not stopped: the trend list
Rule3Insertions == [n \in 1..Len(TrendTags) |-> Unhashed(TrendTags[n])]
Hashed(x) == IF x # <<>> /\ Head(x) = "#" THEN x ELSE <<"#">> \o x

\* C17: the candidates stand in the order of their first insertion by
\* rule 1, then rule 2, then rule 3; no step of the request moves or removes
\* a candidate that is in the set; and generated is a prefix of that order,
\* each element with its '#'.
C17_InsertionOrder ==
  /\ [](pc = "done" =>
          /\ IsPrefixOf(FirstOccurrences(Rule1Insertions \o Rule2Insertions),
                        candidates)
          /\ IsPrefixOf(candidates,
                        FirstOccurrences(Rule1Insertions \o Rule2Insertions
                                           \o Rule3Insertions))
          /\ Len(res.generated) <= Len(candidates)
          /\ \A i \in 1..Len(res.generated) :
               res.generated[i] = Hashed(candidates[i]))
  /\ [][IsPrefixOf(candidates, candidates')]_vars
\* keyword "abc", trend list #xyz, #abc, limit 5: "abc" keeps the place
\* rule 1 gave it, the variations follow, "xyz" of rule 3 comes last
C17_Witness ==
  /\ pc = "done" /\ body.hasLimit /\ body.limit = 5
  /\ keywords = << <<"a","b","c">> >>
  /\ TrendTags = << <<"#","x","y","z">>, <<"#","a","b","c">> >>
  /\ res.generated = << <<"#","a","b","c">>, <<"#","a","b","c","t","o","k">>,
                        <<"#","a","b","c","t","i","k","t","o","k">>,
                        <<"#","x","y","z">> >>

(***************************************************************************)
(* Properties of the rate limiter.                                         *)
(***************************************************************************)
\* the requests of the caller of request i that reached the limiter in the
\* window of RateLimitDuration seconds that ends with request i
InWindow(i) ==
  { j \in 1..i : /\ reqs[j].ip = reqs[i].ip
                 /\ reqs[j].at > reqs[i].at - RateLimitDuration }

\* C18: a request the limiter refuses, the caller having sent more than
\* the configured number within the window, is answered 429 "Too many
\* requests" by the middleware and is at no time handed to a handler; a
\* request the limiter accepts is handed to a handler once, never twice,
\* and is not answered 429.
C18_RefusedNeverHandled ==
  /\ [](\A i \in 1..Len(reqs) :
          /\ reqs[i].promise = "rejected" =>
               /\ Cardinality(InWindow(i)) > RateLimitPoints
               /\ reqs[i].handed = 0
               /\ reqs[i].stage \in {"awaitConsume", "answered"}
               /\ reqs[i].stage = "answered" =>
                    reqs[i].status = 429 /\ reqs[i].error = "Too many requests"
          /\ reqs[i].promise = "resolved" =>
               /\ reqs[i].handed = IF reqs[i].stage = "awaitConsume" THEN 0 ELSE 1
               /\ reqs[i].status # 429)
  /\ [][\A i \in 1..Len(reqs) :
          /\ reqs'[i].handed >= reqs[i].handed
          /\ reqs[i].stage = "awaitConsume" /\ reqs[i].promise = "rejected"
               => (reqs'[i] = reqs[i] \/ reqs'[i].stage = "answered")
          /\ reqs[i].stage = "answered" => reqs'[i] = reqs[i]]_vars
\* the third request of one caller within a second is refused and
\* answered, the two before it are with their handlers, and a request of
\* the same caller after the window has been accepted
C18_Witness ==
  /\ Len(reqs) = 4
  /\ \A i \in 1..4 : reqs[i].ip = "ip1"
  /\ reqs[1].handed = 1 /\ reqs[2].handed = 1
  /\ reqs[3].promise = "rejected" /\ reqs[3].status = 429 /\ reqs[3].handed = 0
  /\ reqs[4].promise = "resolved" /\ reqs[4].handed = 1 /\ reqs[4].at > reqs[3].at

(***************************************************************************)
(* Properties of the stored snapshots.                                     *)
(***************************************************************************)
\* the country code of the request in flight
Requested == CountryOf(body)
WrittenFor(c) == { w \in written : toLowerCase(w[1]) = toLowerCase(c) }

\* C7: once a writer has stored a snapshot for a country code, a read for
\* a code equal to it up to letter case finds a snapshot, the latest one
\* written for that code, and not the empty default.
C7_KeyCaseInsensitive ==
  [][StoreGet =>
       (WrittenFor(Requested) # {} =>
          /\ snap'.exists
          /\ <<snap'.data>> \in { <<w[2]>> : w \in WrittenFor(Requested) }
          /\ \A w \in WrittenFor(Requested) :
               w[2].updatedAt[1] <= snap'.data.updatedAt[1])]_vars

SortedByScore(h) == \A i \in 1..(Len(h) - 1) : h[i].score >= h[i + 1].score

\* C10: the hashtags of every stored snapshot are sorted by score, highest
\* first, and are at most the cap of entries.
C10_SnapshotInvariant ==
  \A d \in DocIds :
    store[d].exists =>
      /\ SortedByScore(store[d].data.hashtags)
      /\ Len(store[d].data.hashtags) <= OldSliceCap

(***************************************************************************)
(* Properties of POST /scrape.                                             *)
(***************************************************************************)
\* C19: a POST /scrape that answers success has written a new snapshot
\* during the request; one that has written none leaves the store as it
\* was, leaves no browser open and answers with an error.
C19_ScrapeSuccessOnlyIfWritten ==
  [][(Scrape \/ PlaceScrape) =>
       /\ scrapeRes'.status = 200 => written' # written
       /\ written' = written =>
            /\ store' = store
            /\ browser' # "open"
            /\ scrapeRes'.status >= 400]_vars
====
